---- MODULE Spec2Model ----
(***************************************************************************)
(* A model of the Tower Management FastAPI service:                        *)
(*   - src/src/functions.py: log, LoggingMiddleware, create_connection_pool,*)
(*     get_db_connection, fetch_all_sql_table_data, read_data_file          *)
(*   - src/src/api.py: the routes and the exception handlers                *)
(*   - src/src/utility_functions.py: log with create_log_file and           *)
(*     rotate_log_file                                                      *)
(*                                                                         *)
(* Spec     is the service: the import of functions.py (pool creation),    *)
(*          then requests passing through LoggingMiddleware to the routes. *)
(* SpecLog  is utility_functions.log called from concurrent threads over a *)
(*          small file system.                                             *)
(***************************************************************************)
EXTENDS Integers, Sequences, FiniteSets, TLC

VARIABLES
    proc,       \* the process: "importing", "serving" or "crashed"
    logDir,     \* whether the directory logs/ exists (functions.log never creates it)
    bootAttempt,\* create_connection_pool: the loop variable attempt
    bootCalls,  \* number of MySQLConnectionPool(...) constructor calls made
    bootTries,  \* the outcome of each constructor call, in order
    bootLog,    \* entries log() wrote during the import
    bootExc,    \* the exception that ended the import, or "none"
    pool,       \* the module global connection_pool: "unset", "pool" or "None"
    poolFree,   \* connections waiting in the pool's queue
    req,        \* per client: the request it has in flight
    \* ---- utility_functions.log (SpecLog) ----
    dirs,       \* directories that exist
    files,      \* path -> content of the file, for the files that exist
    now,        \* the wall clock, in seconds
    thr,        \* per thread: the log call it runs
    calls       \* log calls started so far

vars == <<proc, logDir, bootAttempt, bootCalls, bootTries, bootLog, bootExc,
          pool, poolFree, req, dirs, files, now, thr, calls>>

svcVars == <<proc, logDir, bootAttempt, bootCalls, bootTries, bootLog, bootExc,
             pool, poolFree, req>>

bootVars == <<proc, bootAttempt, bootCalls, bootTries, bootLog, bootExc, pool>>

logVars == <<dirs, files, now, thr, calls>>

-----------------------------------------------------------------------------
(* Program constants *)

\* retries = 3 in create_connection_pool
CreateRetries == 3

\* retries = 3 in get_db_connection
AcquireRetries == 3

\* pool_size=10
PoolSize == 10

INFO == "INFO"

ERROR == "ERROR"

(* Bounds of the model *)

\* number of clients that may have a request in flight at the same time
NumClients == 1

Clients == 1..NumClients

Routes == {"/", "/closureData", "/sunburstData", "/gridData"}

\* absent; holding valid JSON; holding text that is not JSON; present but
\* not readable (open() raises an OSError other than FileNotFoundError)
FileStates == {"absent", "valid", "invalid", "unreadable"}

-----------------------------------------------------------------------------
(* functions.log: one entry appended to logs/application.log.  The entry is *)
(* kept with the function that made the call.                               *)

LogEntry(fn, level, message) == [fn |-> fn, level |-> level, message |-> message]

log(lg, fn, message, level) == Append(lg, LogEntry(fn, level, message))

\* The text the driver puts in an Error; log messages interpolate it ({err})
ErrText == "<err>"

\* f"{attempt + 1}"
AttemptStr(attempt) == <<"1", "2", "3", "4">>[attempt + 1]

\* json.dumps of response.status_code
StatusStr(status) ==
    CASE status = 200 -> "200"
      [] status = 404 -> "404"
      [] status = 422 -> "422"
      [] status = 500 -> "500"

NoResp == [status |-> 0, body |-> <<>>]

\* open(LOG_FILE, "a") creates the file but not its directory
LogRaises == ~logDir

-----------------------------------------------------------------------------
(* The import of functions.py: connection_pool = create_connection_pool()   *)

\* the exhaustion test written against the loop variable alone, which
\* range(retries) never lets reach retries
CreateExhaustedOffByOne(attempt) == attempt = CreateRetries

\* if attempt + 1 == retries: raise HTTPException(...)
CreateExhausted(attempt) == attempt + 1 = CreateRetries

\* for attempt in range(retries): is there a next iteration
CreateLoopContinues(attempt) == attempt + 1 < CreateRetries

CreatePoolAttempt ==
    /\ proc = "importing"
    /\ IF LogRaises
       THEN \* log("Creating connection pool...") raises FileNotFoundError,
            \* which is no mysql Error: it leaves the function and the import
            /\ proc' = "crashed"
            /\ bootExc' = "FileNotFoundError"
            /\ UNCHANGED <<bootAttempt, bootCalls, bootTries, bootLog, pool, poolFree>>
       ELSE \E outcome \in {"created", "Error"} :
            LET lg1 == log(bootLog, "create_connection_pool",
                           <<"Creating connection pool...">>, INFO)
            IN  /\ bootCalls' = bootCalls + 1
                /\ bootTries' = Append(bootTries, outcome)
                /\ IF outcome = "created"
                   THEN /\ bootLog' = lg1
                        /\ pool' = "pool"
                        /\ poolFree' = PoolSize
                        /\ proc' = "serving"
                        /\ UNCHANGED <<bootAttempt, bootExc>>
                   ELSE /\ bootLog' = log(lg1, "create_connection_pool",
                                          <<"Attempt", AttemptStr(bootAttempt),
                                            "Error creating connection pool", ErrText>>,
                                          ERROR)
                        /\ UNCHANGED poolFree
                        /\ IF CreateExhausted(bootAttempt)
                           THEN /\ proc' = "crashed"
                                /\ bootExc' = "HTTPException"
                                /\ UNCHANGED <<bootAttempt, pool>>
                           ELSE IF CreateLoopContinues(bootAttempt)
                           THEN \* time.sleep(2), next iteration
                                /\ bootAttempt' = bootAttempt + 1
                                /\ UNCHANGED <<proc, bootExc, pool>>
                           ELSE \* the loop ends: the function returns None
                                /\ pool' = "None"
                                /\ proc' = "serving"
                                /\ UNCHANGED <<bootAttempt, bootExc>>
    /\ UNCHANGED <<logDir, req, logVars>>

-----------------------------------------------------------------------------
(* Requests.  A request enters LoggingMiddleware.dispatch, which logs it,   *)
(* awaits call_next (the exception layer, the dependencies and the route)   *)
(* and logs the response.                                                   *)

IdleReq ==
    [pc       |-> "idle",
     route    |-> "none",
     attempt  |-> 0,          \* get_db_connection: the loop variable
     tries    |-> <<>>,       \* get_db_connection: outcome of each attempt
     sleeps   |-> 0,          \* get_db_connection: calls of time.sleep(2)
     acq      |-> "pending",  \* get_db_connection: "pending", "returned", or the
                              \* exception it raised
     conn     |-> "unset",    \* db_conn as injected: "unset", "conn", "None"
     cursor   |-> "unbound",  \* the local cursor: "unbound", "open", "closed"
     closes   |-> 0,          \* calls of cursor.close() that ran
     fetch    |-> "pending",  \* fetch_all_sql_table_data: "pending", "ended"
     fault    |-> "none",     \* the error the try body raised, if any
     pending  |-> "none",     \* outcome on entry to the finally clause
     escaped  |-> "none",     \* outcome that left fetch_all_sql_table_data
     atExists |-> "none",     \* read_data_file: file state seen by exists()
     atOpen   |-> "none",     \* read_data_file: file state seen by open()
     read     |-> "pending",  \* read_data_file: "pending", "returned"
     exc      |-> "none",     \* exception travelling up the ASGI stack
     detail   |-> <<>>,       \* detail of a raised HTTPException
     log      |-> <<>>,       \* entries log() wrote for this request
     resp     |-> NoResp]     \* the response sent to the client

Set(c, r) == req' = [req EXCEPT ![c] = r]

RouteFile(route) ==
    IF route = "/sunburstData" THEN "sunburstData.json" ELSE "gridData.json"

\* what call_next reaches first for a route: Depends(get_db_connection) is
\* solved before get_closure_data runs
EntryPc(route) ==
    CASE route = "/" -> "root"
      [] route = "/closureData" -> "get_db_connection"
      [] OTHER -> "read_exists"

\* LoggingMiddleware.dispatch up to `await call_next(request)`
Dispatch(c) ==
    /\ proc = "serving"
    /\ req[c].pc = "idle"
    /\ \E route \in Routes :
         Set(c, [req[c] EXCEPT
                   !.route = route,
                   !.log = log(@, "dispatch", <<"request", route>>, INFO),
                   !.pc = EntryPc(route)])
    /\ UNCHANGED <<bootVars, logDir, poolFree, logVars>>

\* LoggingMiddleware.dispatch after call_next returned a response
LogResponse(r) ==
    [r EXCEPT !.log = log(@, "dispatch", <<"response", StatusStr(r.resp.status)>>, INFO),
              !.pc = "done"]

MwResponse(c) ==
    /\ req[c].pc = "mw_response"
    /\ Set(c, LogResponse(req[c]))
    /\ UNCHANGED <<bootVars, logDir, poolFree, logVars>>

\* GET /
Root(c) ==
    /\ req[c].pc = "root"
    /\ Set(c, [req[c] EXCEPT
                 !.resp = [status |-> 200,
                           body |-> <<"Tower Management Azure app is running...">>],
                 !.pc = "mw_response"])
    /\ UNCHANGED <<bootVars, logDir, poolFree, logVars>>

\* An HTTPException raised under call_next is turned into a JSON response
\* {"detail": ...} by the framework's exception layer, inside the middleware
HttpExceptionResponse(r) ==
    [r EXCEPT !.resp = [status |-> 500, body |-> r.detail],
              !.exc = "none",
              !.pc = "mw_response"]

HttpException(c) ==
    /\ req[c].pc = "http_exc"
    /\ Set(c, HttpExceptionResponse(req[c]))
    /\ UNCHANGED <<bootVars, logDir, poolFree, logVars>>

\* Any other exception leaves call_next and so dispatch (nothing catches it
\* there); the server error layer answers with internal_server_error_handler
ServerErrorResponse(r) ==
    [r EXCEPT !.resp = [status |-> 500, body |-> <<"Internal Server Error">>],
              !.pc = "done"]

ServerError(c) ==
    /\ req[c].pc = "unhandled"
    /\ Set(c, ServerErrorResponse(req[c]))
    /\ UNCHANGED <<bootVars, logDir, poolFree, logVars>>

\* the client has its response; the slot is free for the next request
Finish(c) ==
    /\ req[c].pc = "done"
    /\ Set(c, IdleReq)
    /\ UNCHANGED <<bootVars, logDir, poolFree, logVars>>

-----------------------------------------------------------------------------
(* get_db_connection, the dependency of GET /closureData                    *)

\* the exhaustion test written against the loop variable alone
AcquireExhaustedOffByOne(attempt) == attempt = AcquireRetries

\* if attempt + 1 == retries: raise HTTPException(...)
AcquireExhausted(attempt) == attempt + 1 = AcquireRetries

\* for attempt in range(retries): is there a next iteration
AcquireLoopContinues(attempt) == attempt + 1 < AcquireRetries

\* the end of one loop iteration: the next one, or the end of the function
\* body, where Python returns None
AcquireNextIteration(r) ==
    IF AcquireLoopContinues(r.attempt)
    THEN [r EXCEPT !.attempt = @ + 1]
    ELSE [r EXCEPT !.acq = "returned", !.conn = "None", !.pc = "fetch_cursor"]

\* if connection.is_connected(): log(...); return connection
AcquireLive(r) ==
    [r EXCEPT !.log = log(@, "get_db_connection",
                          <<"SQL Connection Successful">>, INFO),
              !.acq = "returned",
              !.conn = "conn",
              !.pc = "fetch_cursor"]

\* is_connected() is false: the if has no else, nothing is logged, the
\* connection is dropped and the loop goes on
AcquireDead(r) == AcquireNextIteration(r)

\* except Error as err: log, raise on the last attempt, else time.sleep(2)
AcquireError(r) ==
    LET logged == [r EXCEPT !.log = log(@, "get_db_connection",
                                        <<"Attempt", AttemptStr(r.attempt),
                                          "Error getting connection", ErrText>>,
                                        ERROR)]
    IN  IF AcquireExhausted(r.attempt)
        THEN [logged EXCEPT !.acq = "HTTPException",
                            !.exc = "HTTPException",
                            !.detail = <<"Database connection error">>,
                            !.pc = "http_exc"]
        ELSE AcquireNextIteration([logged EXCEPT !.sleeps = @ + 1])

\* connection_pool.get_connection(): the queue is empty (PoolError, an
\* Error), the server cannot be reached (Error), or a connection leaves the
\* queue; that one may have lost its link by the time is_connected() asks
GetConnectionOutcomes ==
    IF poolFree = 0 THEN {"Error"} ELSE {"Error", "live", "dead"}

GetDbConnectionAttempt(c) ==
    /\ req[c].pc = "get_db_connection"
    /\ IF pool # "pool"
       THEN \* None.get_connection(): AttributeError, which is no Error
            /\ Set(c, [req[c] EXCEPT !.acq = "AttributeError",
                                     !.exc = "AttributeError",
                                     !.pc = "unhandled"])
            /\ UNCHANGED poolFree
       ELSE \E outcome \in GetConnectionOutcomes :
            LET r == [req[c] EXCEPT !.tries = Append(@, outcome)]
            IN  /\ poolFree' = IF outcome = "Error" THEN poolFree ELSE poolFree - 1
                /\ Set(c, CASE outcome = "live" -> AcquireLive(r)
                            [] outcome = "dead" -> AcquireDead(r)
                            [] OTHER -> AcquireError(r))
    /\ UNCHANGED <<bootVars, logDir, logVars>>

-----------------------------------------------------------------------------
(* get_closure_data and fetch_all_sql_table_data                            *)

TableName == "tmsv_360_project_closure"

\* except Error as err: log(...); raise HTTPException(...)
FetchExcept(r) ==
    [r EXCEPT !.log = log(@, "fetch_all_sql_table_data",
                          <<"Error fetching data from table", TableName, ErrText>>,
                          ERROR),
              !.fault = "Error",
              !.pending = "HTTPException",
              !.detail = <<"Error fetching data from database">>]

\* finally: cursor.close().  The name cursor is bound only once
\* db_conn.cursor() has returned; reading it unbound raises
\* UnboundLocalError, which replaces whatever the try statement was leaving
\* with
FetchFinally(r) ==
    IF r.cursor = "unbound"
    THEN [r EXCEPT !.escaped = "UnboundLocalError"]
    ELSE [r EXCEPT !.cursor = "closed", !.closes = @ + 1, !.escaped = r.pending]

\* fetch_all_sql_table_data is left; on a return get_closure_data wraps the
\* rows in JSONResponse(content=data, status_code=200)
FetchLeave(r) ==
    CASE r.escaped = "return" ->
           [r EXCEPT !.fetch = "ended",
                     !.resp = [status |-> 200, body |-> <<"rows", TableName>>],
                     !.pc = "mw_response"]
      [] r.escaped = "HTTPException" ->
           [r EXCEPT !.fetch = "ended", !.exc = "HTTPException", !.pc = "http_exc"]
      [] OTHER ->
           [r EXCEPT !.fetch = "ended", !.exc = r.escaped, !.pc = "unhandled"]

\* cursor = db_conn.cursor()
FetchCursor(c) ==
    /\ req[c].pc = "fetch_cursor"
    /\ IF req[c].conn = "None"
       THEN \* None.cursor(): AttributeError, which `except Error` lets pass
            Set(c, FetchLeave(FetchFinally(
                     [req[c] EXCEPT !.fault = "AttributeError",
                                    !.pending = "AttributeError"])))
       ELSE \E ok \in BOOLEAN :
            IF ok
            THEN Set(c, [req[c] EXCEPT !.cursor = "open", !.pc = "fetch_rows"])
            ELSE Set(c, FetchLeave(FetchFinally(FetchExcept(req[c]))))
    /\ UNCHANGED <<bootVars, logDir, poolFree, logVars>>

\* cursor.execute(query); cursor.fetchall(); the conversion of the rows;
\* log(...); return data
FetchRows(c) ==
    /\ req[c].pc = "fetch_rows"
    /\ \E ok \in BOOLEAN :
         IF ok
         THEN Set(c, FetchLeave(FetchFinally(
                       [req[c] EXCEPT
                          !.log = log(@, "fetch_all_sql_table_data",
                                      <<"Fetched data from table", TableName>>, INFO),
                          !.pending = "return"])))
         ELSE Set(c, FetchLeave(FetchFinally(FetchExcept(req[c]))))
    /\ UNCHANGED <<bootVars, logDir, poolFree, logVars>>

-----------------------------------------------------------------------------
(* read_data_file, behind GET /sunburstData and GET /gridData               *)

\* what `with file_path.open('r') as file: data = json.load(file)` raises
ReadRaises(state) ==
    CASE state = "valid" -> "none"
      [] state = "invalid" -> "JSONDecodeError"
      [] state = "absent" -> "FileNotFoundError"
      [] OTHER -> "PermissionError"

\* the return of the try body and the two except clauses
ReadOutcome(r, file, raised) ==
    CASE raised = "none" ->
           [r EXCEPT !.log = log(@, "read_data_file",
                                 <<"Request for", file, "received">>, INFO),
                     !.resp = [status |-> 200, body |-> <<"content", file>>]]
      [] raised = "JSONDecodeError" ->
           [r EXCEPT !.log = log(@, "read_data_file",
                                 <<"Error decoding JSON">>, ERROR),
                     !.resp = [status |-> 422, body |-> <<"Malformed JSON">>]]
      [] OTHER ->
           [r EXCEPT !.log = log(@, "read_data_file",
                                 <<"Error reading", file, ErrText>>, ERROR),
                     !.resp = [status |-> 500, body |-> <<"Internal Server Error">>]]

\* if file_path.exists(): ... else: log(...); return 404
\* `state` is the state of the file at the moment exists() looks
ReadExists(c) ==
    /\ req[c].pc = "read_exists"
    /\ \E state \in FileStates :
         LET file == RouteFile(req[c].route)
             r == [req[c] EXCEPT !.atExists = state]
         IN  IF state # "absent"
             THEN Set(c, [r EXCEPT !.pc = "read_open"])
             ELSE Set(c, [r EXCEPT
                            !.log = log(@, "read_data_file",
                                        <<file, "file not found">>, ERROR),
                            !.resp = [status |-> 404, body |-> <<"File not found">>],
                            !.read = "returned",
                            !.pc = "mw_response"])
    /\ UNCHANGED <<bootVars, logDir, poolFree, logVars>>

\* `state` is the state of the file at the moment open() runs: the files
\* under data/ are written, replaced and removed from outside, so it need
\* not be the state exists() saw
ReadOpen(c) ==
    /\ req[c].pc = "read_open"
    /\ \E state \in FileStates :
         LET file == RouteFile(req[c].route)
             r == [req[c] EXCEPT !.atOpen = state,
                                 !.read = "returned",
                                 !.pc = "mw_response"]
         IN  Set(c, ReadOutcome(r, file, ReadRaises(state)))
    /\ UNCHANGED <<bootVars, logDir, poolFree, logVars>>

-----------------------------------------------------------------------------
(* The service *)

\* the values the logger's variables keep while Spec runs
LogIdle ==
    /\ dirs = {}
    /\ files = [p \in {} |-> 0]
    /\ now = 0
    /\ thr = [t \in {} |-> 0]
    /\ calls = 0

SvcInit ==
    /\ proc = "importing"
    /\ logDir \in BOOLEAN
    /\ bootAttempt = 0
    /\ bootCalls = 0
    /\ bootTries = <<>>
    /\ bootLog = <<>>
    /\ bootExc = "none"
    /\ pool = "unset"
    /\ poolFree = 0
    /\ req = [c \in Clients |-> IdleReq]

Init == SvcInit /\ LogIdle

Next ==
    \/ CreatePoolAttempt
    \/ \E c \in Clients :
         \/ Dispatch(c)
         \/ Root(c)
         \/ GetDbConnectionAttempt(c)
         \/ FetchCursor(c)
         \/ FetchRows(c)
         \/ ReadExists(c)
         \/ ReadOpen(c)
         \/ HttpException(c)
         \/ ServerError(c)
         \/ MwResponse(c)
         \/ Finish(c)

Spec == Init /\ [][Next]_vars

-----------------------------------------------------------------------------
(* utility_functions.py: log, create_log_file, rotate_log_file.            *)
(* A path is the sequence of the pieces of its string, "/" among them, so  *)
(* that building a name and splitting a path are what they are in Python.  *)

\* MAX_LOG_SIZE = 5 * 1024 * 1024
MAX_LOG_SIZE == 5 * 1024 * 1024

\* LOG_FILE = "logs/application.log"
LOG_FILE == <<"logs", "/", "application.log">>

\* threads that may be inside log() at the same time
LogThreads == 2

\* log calls made in one run, all threads together
MaxLogCalls == 3

\* the last second the clock reaches, from second 1
MaxClock == 2

\* bytes of one entry line
EntryBytes == 100

Threads == 1..LogThreads

\* datetime.now().strftime("%Y%m%d_%H%M%S")
Strftime(t) == <<"20240716_000001", "20240716_000002", "20240716_000003",
                 "20240716_000004">>[t]

Stamps == {Strftime(t) : t \in 1..MaxClock}

\* index of the last "/" of a path, 0 when it has none
LastSlash(p) ==
    LET at == {i \in 1..Len(p) : p[i] = "/"}
    IN  IF at = {} THEN 0 ELSE CHOOSE i \in at : \A j \in at : j <= i

\* Path(p).parent and Path(p).name
Parent(p) == SubSeq(p, 1, LastSlash(p) - 1)

Name(p) == SubSeq(p, LastSlash(p) + 1, Len(p))

\* f"{timestamp}-{LOG_FILE}"
NewLogFileName(timestamp) == <<timestamp, "-">> \o LOG_FILE

Exists(p) == p \in DOMAIN files

\* Path(p).stat().st_size: the bytes the file held at the start plus the
\* entries appended since
Size(p) == files[p].base + Len(files[p].entries) * EntryBytes

EmptyFile == [base |-> 0, entries |-> <<>>]

WithFile(p, content) ==
    [q \in DOMAIN files \cup {p} |-> IF q = p THEN content ELSE files[q]]

IdleThread ==
    [pc      |-> "idle",
     entry   |-> <<>>,      \* the entry this call is to write
     before  |-> <<>>,      \* entries of the log file when the call found it too big
     sawBig  |-> FALSE,     \* the call found the log file above MAX_LOG_SIZE
     renames |-> 0,         \* renames this call performed
     target  |-> <<>>,      \* the path this call renamed the log file to
     exc     |-> "none",    \* the exception that ended the call
     via     |-> "none",    \* the module whose log() this call runs
     checked |-> FALSE,     \* rotate_log_file() ran in this call
     ensured |-> FALSE,     \* create_log_file() ran in this call
     found   |-> "none",    \* what open(LOG_FILE, "a") of this call met
     bigRace |-> FALSE,     \* found the file too big while another call, having
                            \* found the same, had not renamed yet
     absentRace |-> FALSE]  \* found the file absent while another call, having
                            \* found the same, had not created it yet

SetThr(t, v) == thr' = [thr EXCEPT ![t] = v]

\* the calls that found the log file too big and have not renamed it yet
BigPeers(t) == {u \in Threads \ {t} : thr[u].pc = "rot_rename"}

\* the calls that found the log file absent and have not created it yet
AbsentPeers(t) == {u \in Threads \ {t} : thr[u].pc \in {"crt_mkdir", "crt_open"}}

Raise(t, exc) == SetThr(t, [thr[t] EXCEPT !.pc = "raised", !.exc = exc])

\* log(): the timestamp, json.dumps and print, up to rotate_log_file()
StartLog(t) ==
    /\ thr[t].pc \in {"idle", "returned", "raised"}
    /\ calls < MaxLogCalls
    /\ calls' = calls + 1
    /\ SetThr(t, [IdleThread EXCEPT !.pc = "rot_exists",
                                    !.via = "utility_functions",
                                    !.entry = [thread |-> t, call |-> calls + 1]])
    /\ UNCHANGED <<dirs, files, now, svcVars>>

\* rotate_log_file: Path(LOG_FILE).exists()
RotExists(t) ==
    /\ thr[t].pc = "rot_exists"
    /\ SetThr(t, [thr[t] EXCEPT !.checked = TRUE,
                                !.pc = IF Exists(LOG_FILE) THEN "rot_stat"
                                       ELSE "crt_exists"])
    /\ UNCHANGED <<dirs, files, now, calls, svcVars>>

\* rotate_log_file: Path(LOG_FILE).stat().st_size > MAX_LOG_SIZE
RotStat(t) ==
    /\ thr[t].pc = "rot_stat"
    /\ IF ~Exists(LOG_FILE)
       THEN Raise(t, "FileNotFoundError")
       ELSE IF Size(LOG_FILE) > MAX_LOG_SIZE
       THEN thr' = [u \in Threads |->
                      IF u = t
                      THEN [thr[t] EXCEPT !.pc = "rot_rename",
                                          !.sawBig = TRUE,
                                          !.before = files[LOG_FILE].entries,
                                          !.bigRace = BigPeers(t) # {}]
                      ELSE IF u \in BigPeers(t)
                      THEN [thr[u] EXCEPT !.bigRace = TRUE]
                      ELSE thr[u]]
       ELSE SetThr(t, [thr[t] EXCEPT !.pc = "crt_exists"])
    /\ UNCHANGED <<dirs, files, now, calls, svcVars>>

\* rotate_log_file: the timestamp, the new name, Path(LOG_FILE).rename(...)
\* rename needs the source and the directory of the target to exist; it
\* replaces a file already at the target
RotRename(t) ==
    /\ thr[t].pc = "rot_rename"
    /\ LET new_log_file_name == NewLogFileName(Strftime(now))
       IN  IF ~Exists(LOG_FILE) \/ Parent(new_log_file_name) \notin dirs
           THEN /\ Raise(t, "FileNotFoundError")
                /\ UNCHANGED files
           ELSE /\ files' = [q \in (DOMAIN files \ {LOG_FILE}) \cup {new_log_file_name} |->
                               IF q = new_log_file_name THEN files[LOG_FILE]
                               ELSE files[q]]
                /\ SetThr(t, [thr[t] EXCEPT !.pc = "crt_exists",
                                            !.renames = @ + 1,
                                            !.target = new_log_file_name])
    /\ UNCHANGED <<dirs, now, calls, svcVars>>

\* create_log_file: if not Path(LOG_FILE).exists()
CrtExists(t) ==
    /\ thr[t].pc = "crt_exists"
    /\ IF Exists(LOG_FILE)
       THEN SetThr(t, [thr[t] EXCEPT !.ensured = TRUE, !.pc = "append"])
       ELSE thr' = [u \in Threads |->
                      IF u = t
                      THEN [thr[t] EXCEPT !.ensured = TRUE,
                                          !.pc = "crt_mkdir",
                                          !.absentRace = AbsentPeers(t) # {}]
                      ELSE IF u \in AbsentPeers(t)
                      THEN [thr[u] EXCEPT !.absentRace = TRUE]
                      ELSE thr[u]]
    /\ UNCHANGED <<dirs, files, now, calls, svcVars>>

\* create_log_file: Path(LOG_FILE).parent.mkdir(parents=True, exist_ok=True)
CrtMkdir(t) ==
    /\ thr[t].pc = "crt_mkdir"
    /\ dirs' = dirs \cup {Parent(LOG_FILE)}
    /\ SetThr(t, [thr[t] EXCEPT !.pc = "crt_open"])
    /\ UNCHANGED <<files, now, calls, svcVars>>

\* create_log_file: open(LOG_FILE, "x"), which refuses an existing file
CrtOpen(t) ==
    /\ thr[t].pc = "crt_open"
    /\ IF Exists(LOG_FILE)
       THEN /\ Raise(t, "FileExistsError")
            /\ UNCHANGED files
       ELSE IF Parent(LOG_FILE) \notin dirs
       THEN /\ Raise(t, "FileNotFoundError")
            /\ UNCHANGED files
       ELSE /\ files' = WithFile(LOG_FILE, EmptyFile)
            /\ SetThr(t, [thr[t] EXCEPT !.pc = "append"])
    /\ UNCHANGED <<dirs, now, calls, svcVars>>

\* what open(LOG_FILE, "a") meets: no directory, no file, a file above
\* MAX_LOG_SIZE, or a file within it
Found ==
    CASE Parent(LOG_FILE) \notin dirs -> "missing_dir"
      [] ~Exists(LOG_FILE) -> "missing_file"
      [] Size(LOG_FILE) > MAX_LOG_SIZE -> "too_big"
      [] OTHER -> "ok"

\* with open(LOG_FILE, "a") as log_file: log_file.write(...)
\* mode "a" creates a missing file, not a missing directory
OpenAppend(t) ==
    IF Parent(LOG_FILE) \notin dirs
    THEN /\ SetThr(t, [thr[t] EXCEPT !.pc = "raised", !.exc = "FileNotFoundError",
                                     !.found = Found])
         /\ UNCHANGED files
    ELSE LET old == IF Exists(LOG_FILE) THEN files[LOG_FILE] ELSE EmptyFile
         IN  /\ files' = WithFile(LOG_FILE,
                                  [old EXCEPT !.entries = Append(@, thr[t].entry)])
             /\ SetThr(t, [thr[t] EXCEPT !.pc = "returned", !.found = Found])

\* log(): the append that follows create_log_file()
AppendEntry(t) ==
    /\ thr[t].pc = "append"
    /\ OpenAppend(t)
    /\ UNCHANGED <<dirs, now, calls, svcVars>>

\* functions.log(): the timestamp, json.dumps and print; the next statement
\* is the open of the log file
SvcStartLog(t) ==
    /\ thr[t].pc \in {"idle", "returned", "raised"}
    /\ calls < MaxLogCalls
    /\ calls' = calls + 1
    /\ SetThr(t, [IdleThread EXCEPT !.pc = "svc_append",
                                    !.via = "functions",
                                    !.entry = [thread |-> t, call |-> calls + 1]])
    /\ UNCHANGED <<dirs, files, now, svcVars>>

\* functions.log(): the append
SvcAppendEntry(t) ==
    /\ thr[t].pc = "svc_append"
    /\ OpenAppend(t)
    /\ UNCHANGED <<dirs, now, calls, svcVars>>

\* a second passes
Tick ==
    /\ now < MaxClock
    /\ now' = now + 1
    /\ UNCHANGED <<dirs, files, thr, calls, svcVars>>

\* the values the service's variables keep while SpecLog runs
SvcIdle ==
    /\ proc = "crashed"
    /\ logDir = FALSE
    /\ bootAttempt = 0
    /\ bootCalls = 0
    /\ bootTries = <<>>
    /\ bootLog = <<>>
    /\ bootExc = "none"
    /\ pool = "unset"
    /\ poolFree = 0
    /\ req = [c \in {} |-> 0]

\* the directory a rotation at second t renames into
StampedDir(t) == Parent(NewLogFileName(Strftime(t)))

\* The file system a log call may find: logs/ present or not; the log file
\* absent, empty, one entry below the limit, or above it; the directories
\* named like the parent of a rotation target present or not
LogInit ==
    /\ now = 1
    /\ calls = 0
    /\ thr = [t \in Threads |-> IdleThread]
    /\ \E logs \in BOOLEAN, stamped \in BOOLEAN :
         dirs = (IF logs THEN {Parent(LOG_FILE)} ELSE {})
                  \cup (IF stamped THEN {StampedDir(t) : t \in 1..MaxClock} ELSE {})
    /\ \/ files = [p \in {} |-> 0]
       \/ /\ Parent(LOG_FILE) \in dirs
          /\ \E base \in {0, MAX_LOG_SIZE - EntryBytes, MAX_LOG_SIZE + 1} :
               files = [p \in {LOG_FILE} |-> [base |-> base, entries |-> <<>>]]

InitLog == LogInit /\ SvcIdle

NextLog ==
    \/ Tick
    \/ \E t \in Threads :
         \/ StartLog(t)
         \/ RotExists(t)
         \/ RotStat(t)
         \/ RotRename(t)
         \/ CrtExists(t)
         \/ CrtMkdir(t)
         \/ CrtOpen(t)
         \/ AppendEntry(t)

SpecLog == InitLog /\ [][NextLog]_vars

\* Threads that call either log(): the one of utility_functions and the one
\* of functions, over the same log file
NextLogs ==
    \/ NextLog
    \/ \E t \in Threads :
         \/ SvcStartLog(t)
         \/ SvcAppendEntry(t)

SpecLogs == InitLog /\ [][NextLogs]_vars

-----------------------------------------------------------------------------
(* Properties *)

\* the entries of a log that one function wrote
ByFn(lg, fn) == LET Test(e) == e.fn = fn IN SelectSeq(lg, Test)

\* the entries of a log at one level
AtLevel(lg, level) == LET Test(e) == e.level = level IN SelectSeq(lg, Test)

\* connections taken out of the pool's queue and not put back
CheckedOut == IF pool = "pool" THEN PoolSize - poolFree ELSE 0

InFlight(c) == req[c].pc \notin {"idle", "done"}

AllRaised == <<"Error", "Error", "Error">>

RequestEntry(route) == LogEntry("dispatch", INFO, <<"request", route>>)

ResponseEntry(status) == LogEntry("dispatch", INFO, <<"response", StatusStr(status)>>)

AcquireErrorEntry(attempt) ==
    LogEntry("get_db_connection", ERROR,
             <<"Attempt", AttemptStr(attempt), "Error getting connection", ErrText>>)

\* C1: once get_db_connection has ended, it has either returned a
\* connection that passed is_connected() or raised the HTTPException 500
\* "Database connection error"; it has not returned None.
C1_AcquireReturnsConnectionOrRaises ==
    \A c \in Clients :
        req[c].acq # "pending" =>
            \/ req[c].acq = "returned" /\ req[c].conn = "conn"
                 /\ req[c].tries[Len(req[c].tries)] = "live"
            \/ req[c].acq = "HTTPException"

\* C2: the connections checked out never exceed pool_size, and when no
\* request is in flight every connection is back in the pool.
C2_ConnectionsReturnedToPool ==
    /\ CheckedOut <= PoolSize
    /\ (proc = "serving" /\ \A c \in Clients : ~InFlight(c)) => CheckedOut = 0

\* C2, the case reached: a /closureData request answered 200 with rows has
\* ended, its cursor closed, and its connection is still out of the pool
C2_LeakAfterSuccess ==
    \E c \in Clients :
        /\ req[c].pc = "done"
        /\ req[c].route = "/closureData"
        /\ req[c].resp.status = 200
        /\ req[c].cursor = "closed"
        /\ CheckedOut > 0

\* C3: when fetch_all_sql_table_data has ended, a cursor that was opened
\* has been closed exactly once, and the finally clause has let the call
\* end the way the try statement was ending it (the return, or the
\* exception on its way out), also when db_conn.cursor() raised.
C3_CursorClosedOnceReleaseNeverFails ==
    \A c \in Clients :
        req[c].fetch = "ended" =>
            /\ req[c].cursor # "unbound" => req[c].cursor = "closed" /\ req[c].closes = 1
            /\ req[c].cursor = "unbound" => req[c].closes = 0
            /\ req[c].escaped = req[c].pending

\* C4 as the spec states it: a /closureData request whose three attempts
\* all raised ends with status 500 and a generic body, and
\* get_db_connection has recorded three ERROR entries, one per attempt,
\* plus one more entry for the exhaustion.
C4_ThreeErrorsPlusExhaustionEntry ==
    \A c \in Clients :
        (req[c].pc = "done" /\ req[c].tries = AllRaised) =>
            /\ req[c].resp.status = 500
            /\ Len(AtLevel(ByFn(req[c].log, "get_db_connection"), ERROR)) = 3
            /\ Len(ByFn(req[c].log, "get_db_connection")) = 3 + 1

\* C4 as amended: a /closureData request whose three attempts all raised
\* ends with status 500 and the body "Database connection error", which
\* carries nothing of the driver's error; the log of the request is the
\* middleware's request entry, the three ERROR entries of the attempts in
\* order, and the middleware's response entry for status 500: no entry is
\* written for the exhaustion.
C4_ThreeErrorsNoExhaustionEntry ==
    \A c \in Clients :
        (req[c].pc = "done" /\ req[c].tries = AllRaised) =>
            /\ req[c].resp = [status |-> 500, body |-> <<"Database connection error">>]
            /\ \A i \in 1..Len(req[c].resp.body) : req[c].resp.body[i] # ErrText
            /\ req[c].log = <<RequestEntry("/closureData"),
                              AcquireErrorEntry(0),
                              AcquireErrorEntry(1),
                              AcquireErrorEntry(2),
                              ResponseEntry(500)>>

\* C4, the case reached: a /closureData request has ended after three
\* attempts that all raised
C4_Witness ==
    \E c \in Clients :
        /\ req[c].pc = "done"
        /\ req[c].route = "/closureData"
        /\ req[c].tries = AllRaised
        /\ req[c].resp.status = 500

\* C5: create_connection_pool calls the pool constructor at most 3 times;
\* the process serves only with the pool of the first call that succeeded
\* (every call before it failed); three failed calls end the import with
\* the HTTPException, and the import fails in no other way once logs/
\* exists.
C5_PoolCreationBounded ==
    /\ bootCalls <= CreateRetries
    /\ bootCalls = Len(bootTries)
    /\ proc = "serving" =>
          /\ pool = "pool"
          /\ bootCalls >= 1
          /\ bootTries[bootCalls] = "created"
          /\ \A i \in 1..(bootCalls - 1) : bootTries[i] = "Error"
    /\ bootTries = AllRaised => proc = "crashed" /\ bootExc = "HTTPException" /\ pool = "unset"
    /\ (proc = "crashed" /\ logDir) => bootTries = AllRaised

\* C5, the case reached: the pool comes from the third constructor call,
\* after two that failed
C5_Witness ==
    /\ proc = "serving"
    /\ pool = "pool"
    /\ bootTries = <<"Error", "Error", "created">>

\* C6: every attempt of get_db_connection writes exactly one entry, INFO
\* for an attempt that gave the connection and ERROR for one that failed;
\* so after two failures and a success the call has returned the
\* connection with 2 ERROR entries and 1 INFO entry.
C6_EveryAttemptLogsOneEntry ==
    \A c \in Clients :
        LET entries == ByFn(req[c].log, "get_db_connection")
            tries == req[c].tries
        IN  /\ Len(entries) = Len(tries)
            /\ \A i \in 1..Len(tries) :
                 i <= Len(entries) =>
                     entries[i].level = IF tries[i] = "live" THEN INFO ELSE ERROR
            /\ (req[c].acq # "pending" /\ Len(tries) = 3 /\ tries[3] = "live"
                  /\ tries[1] # "live" /\ tries[2] # "live") =>
                     /\ req[c].conn = "conn"
                     /\ Len(AtLevel(entries, ERROR)) = 2
                     /\ Len(AtLevel(entries, INFO)) = 1

\* C7: when fetch_all_sql_table_data has ended after an error from
\* cursor(), execute() or fetchall(), it has written one ERROR entry with
\* the table name and the error text, and the error that left the function
\* is the HTTPException 500 "Error fetching data from database".
C7_FetchErrorsLoggedThenQueryFailed ==
    \A c \in Clients :
        (req[c].fetch = "ended" /\ req[c].fault # "none") =>
            /\ ByFn(req[c].log, "fetch_all_sql_table_data") =
                 <<LogEntry("fetch_all_sql_table_data", ERROR,
                            <<"Error fetching data from table", TableName, ErrText>>)>>
            /\ req[c].escaped = "HTTPException"
            /\ req[c].detail = <<"Error fetching data from database">>

\* C8: read_data_file returns 200 with the content when the file holds
\* valid JSON, 404 when the file is absent, at exists() or at open() after
\* exists() found it, 422 when the content is not JSON, and 500 when
\* open() fails otherwise.
C8_ReadDataFileStatus ==
    \A c \in Clients :
        req[c].read = "returned" =>
            LET state == IF req[c].atExists = "absent" THEN "absent" ELSE req[c].atOpen
            IN  req[c].resp.status =
                   CASE state = "valid" -> 200
                     [] state = "absent" -> 404
                     [] state = "invalid" -> 422
                     [] OTHER -> 500

\* C9: the request entry is the first entry of every request, written
\* before anything under call_next runs, and when the request is over,
\* with a response of the handler or after an unhandled error, the last
\* entry is the response entry with the status sent.
C9_RequestAndResponseLogged ==
    \A c \in Clients :
        /\ req[c].pc # "idle" =>
              /\ Len(req[c].log) >= 1
              /\ req[c].log[1] = RequestEntry(req[c].route)
        /\ req[c].pc = "done" =>
              req[c].log[Len(req[c].log)] = ResponseEntry(req[c].resp.status)

\* C10: a log call that found the log file above MAX_LOG_SIZE renames it
\* exactly once, without an error, to a file whose name starts with the
\* timestamp; when the call has returned, its entry is in the log file,
\* a file begun empty after the rename, and the entries the old file held
\* are in the rotated file.
C10_RotationRenamesOnceKeepsEntries ==
    \A t \in Threads :
        (thr[t].sawBig /\ thr[t].pc # "rot_rename") =>
            /\ thr[t].exc = "none"
            /\ thr[t].renames = 1
            /\ Name(thr[t].target)[1] \in Stamps
            /\ thr[t].pc = "returned" =>
                  /\ Exists(LOG_FILE)
                  /\ files[LOG_FILE].base = 0
                  /\ \E i \in 1..Len(files[LOG_FILE].entries) :
                        files[LOG_FILE].entries[i] = thr[t].entry
                  /\ Exists(thr[t].target)
                  /\ files[thr[t].target].entries = thr[t].before

\* C11: every log call, of either module, runs the rotation check and then
\* create_log_file before it opens the log file for append, and what the
\* open meets is an existing file within MAX_LOG_SIZE in an existing
\* directory.
C11_AppendAfterRotateAndEnsure ==
    \A t \in Threads :
        thr[t].found # "none" =>
            /\ thr[t].checked
            /\ thr[t].ensured
            /\ thr[t].found = "ok"

\* C11, the case reached: a call of functions.log, with no rotation check
\* and no create_log_file, has appended to a file above MAX_LOG_SIZE
C11_GrewOversizedFile ==
    \E t \in Threads :
        /\ thr[t].via = "functions"
        /\ thr[t].pc = "returned"
        /\ thr[t].found = "too_big"

\* an entry is in some file
Kept(e) ==
    \E p \in DOMAIN files :
        \E i \in 1..Len(files[p].entries) : files[p].entries[i] = e

\* C12: of the log calls that found the log file above MAX_LOG_SIZE while
\* another had found the same and not renamed yet, at most one renames, none
\* raises, the entries the file held stay in some file and the entry of a
\* call that returned is in some file; and of the log calls that found the
\* log file absent while another had found the same and not created it yet,
\* none raises and the entry of a call that returned is in some file.
C12_RacingCallsDoNotRaiseOrLose ==
    /\ Cardinality({t \in Threads : thr[t].bigRace /\ thr[t].renames > 0}) <= 1
    /\ \A t \in Threads :
          (thr[t].bigRace \/ thr[t].absentRace) =>
              /\ thr[t].exc = "none"
              /\ \A i \in 1..Len(thr[t].before) : Kept(thr[t].before[i])
              /\ thr[t].pc = "returned" => Kept(thr[t].entry)

\* C12, the case reached: two calls found the log file absent, one created
\* it and returned, and the open(LOG_FILE, "x") of the other raised
C12_CreateRaceRaises ==
    \E t, u \in Threads :
        /\ t # u
        /\ thr[t].absentRace /\ thr[u].absentRace
        /\ thr[t].pc = "returned"
        /\ thr[u].exc = "FileExistsError"

\* a log call that has begun its rotation check and has not appended yet
Mid(t) ==
    thr[t].pc \in {"rot_stat", "rot_rename", "crt_exists", "crt_mkdir",
                   "crt_open", "append"}

\* this step is a rotate-check, ensure-exists or append step of thread t,
\* of either log()
StepTaken(t) ==
    /\ thr[t].pc \in {"rot_exists", "rot_stat", "rot_rename", "crt_exists",
                      "crt_mkdir", "crt_open", "append", "svc_append"}
    /\ thr'[t].pc # thr[t].pc

\* C13: while one log call is between its rotation check and its append,
\* no other log call, of either module, executes a rotate-check,
\* ensure-exists or append step.
C13_LogStepsSerialized ==
    [][\A t, u \in Threads : (t # u /\ Mid(u)) => ~StepTaken(t)]_vars

\* C13, the case reached: two log calls are both between their rotation
\* check and their append, so the later one began its check inside the other
C13_TwoCallsMidway ==
    \E t, u \in Threads : t # u /\ Mid(t) /\ Mid(u)

\* what get_db_connection has done for a request: the loop variable, how it
\* ended, what it returned, the delays it took and the entries it logged
AcquireView(r) ==
    [attempt |-> r.attempt,
     acq     |-> r.acq,
     conn    |-> r.conn,
     sleeps  |-> r.sleeps,
     log     |-> ByFn(r.log, "get_db_connection")]

\* get_db_connection run over the outcomes tries[i..], every attempt that
\* is not live taken through the except clause
RECURSIVE AllFailuresAsErrors(_, _, _)
AllFailuresAsErrors(r, tries, i) ==
    IF i > Len(tries) THEN r
    ELSE LET s == [r EXCEPT !.tries = Append(@, tries[i])]
         IN  AllFailuresAsErrors(IF tries[i] = "live" THEN AcquireLive(s)
                                 ELSE AcquireError(s),
                                 tries, i + 1)

\* C14: get_db_connection handles an attempt whose connection fails
\* is_connected() as it handles one whose get_connection() raises Error:
\* after any attempts, the loop variable, the ERROR entries, the 2-second
\* delays taken and the way the function ended are those of the same
\* attempts with each dead connection replaced by an Error.
C14_DeadHandledLikeError ==
    \A c \in Clients :
        req[c].tries # <<>> =>
            AcquireView(req[c]) =
                AcquireView(AllFailuresAsErrors([IdleReq EXCEPT !.pc = "get_db_connection"],
                                                req[c].tries, 1))

\* C14, the case reached: three attempts each got a connection that failed
\* is_connected(); nothing was logged, no delay was taken and the function
\* returned None where three Errors raise HTTPException
C14_ThreeDeadReturnNone ==
    \E c \in Clients :
        /\ req[c].tries = <<"dead", "dead", "dead">>
        /\ req[c].acq = "returned"
        /\ req[c].conn = "None"
        /\ req[c].sleeps = 0
        /\ ByFn(req[c].log, "get_db_connection") = <<>>

====
